---- MODULE Spec2Model ----
(***************************************************************************)
(* Cipher Aegis - flow aggregation engine (core/features.py,               *)
(* core/models.py).  The FeatureExtractor keeps an insertion-ordered       *)
(* dictionary FlowKey -> FlowStats behind one threading.Lock.  Threads call *)
(* process_packet, finalize_all_flows, get_statistics and                  *)
(* get_active_flow_count.  Timestamps are integers (seconds); a mean is the *)
(* exact fraction <<sum, count>>.  FlowStats objects live in a heap (objs)  *)
(* and the dictionary and the local variable flow_stats hold references to  *)
(* them, as in Python; an object that neither the dictionary nor a running  *)
(* call references is freed.  tcp_flags is write-only in the source (no     *)
(* feature reads it) and is left out.                                       *)
(***************************************************************************)
EXTENDS Integers, Sequences, FiniteSets, TLC

\* ---------------------------------------------------------------- bounds
MaxCalls == 3
MaxWall == 2
MaxTime == 2
MaxLength == 1
NumThreads == 2
MaxSeqCalls == 4
MaxLiveCalls == 2
MaxTable == 2
MaxFairCalls == 2
MaxPort == 2
MaxValue == 2
MaxValues == 3
MaxCaptured == 3
MaxSniffThreads == 2

Threads == 1..NumThreads
Timestamps == 0..MaxTime
Lengths == 1..MaxLength
IPs == {"a", "b"}
Ports == {1}
Protocol == {"TCP"}
FlowTimeouts == {0, 2}
CleanupIntervals == {1}

VARIABLES
    flow_timeout,            \* self.flow_timeout
    cleanup_interval,        \* self.cleanup_interval
    flows,                   \* self._flows: sequence of [key, ref], insertion order
    objs,                    \* heap of FlowStats objects, indexed by reference
    lock,                    \* self._lock: 0 = free, else the holding thread
    last_cleanup,            \* self._last_cleanup
    total_flows_created,     \* self._total_flows_created
    total_flows_completed,   \* self._total_flows_completed
    wall,                    \* time.time()
    pc,                      \* position of each thread
    packet,                  \* process_packet: argument
    flow_stats,              \* process_packet: local reference (0 = unset)
    is_forward,              \* process_packet: local
    features,                \* local list of extracted vectors
    ret,                     \* last value returned to each thread
    pre,                     \* history: table contents when the running call took the lock
    removals,                \* history: per object, times it was removed from the table
    handouts,                \* history: per object, vectors of it handed to a caller
    seen,                    \* history: per object, the packets folded into it
    fn,                      \* a pure operation evaluated on its own: inputs and result
    calls,                   \* number of calls started
    sentinel,                \* the NetworkSentinel object and its sniff threads
    app                      \* the application that owns the sentinel and the extractor

vars == <<flow_timeout, cleanup_interval, flows, objs, lock, last_cleanup,
          total_flows_created, total_flows_completed, wall, pc, packet,
          flow_stats, is_forward, features, ret, pre, removals, handouts,
          seen, fn, calls, sentinel, app>>

\* ------------------------------------------------------------ data model
FlowKey(src_ip, dst_ip, src_port, dst_port, protocol) ==
    [src_ip |-> src_ip, dst_ip |-> dst_ip, src_port |-> src_port,
     dst_port |-> dst_port, protocol |-> protocol]

\* Faulty variant: the addresses are swapped, the ports are not.
reverse_ips(k) == FlowKey(k.dst_ip, k.src_ip, k.src_port, k.dst_port, k.protocol)

\* Faulty variant: the endpoints are not swapped.
reverse_noswap(k) == FlowKey(k.src_ip, k.dst_ip, k.src_port, k.dst_port, k.protocol)

reverse(k) == FlowKey(k.dst_ip, k.src_ip, k.dst_port, k.src_port, k.protocol)

PacketInfo ==
    [timestamp : Timestamps, src_ip : IPs, dst_ip : IPs, src_port : Ports,
     dst_port : Ports, protocol : Protocol, length : Lengths]

create_flow_key(p) ==
    FlowKey(p.src_ip, p.dst_ip, p.src_port, p.dst_port, p.protocol)

\* Faulty variant: the accumulator records the key with the endpoints swapped.
FlowStats_swapped(flow_key, first_timestamp, last_timestamp) ==
    [flow_key |-> FlowKey(flow_key.dst_ip, flow_key.src_ip, flow_key.dst_port,
                          flow_key.src_port, flow_key.protocol),
     first_timestamp |-> first_timestamp, last_timestamp |-> last_timestamp,
     fwd_packet_count |-> 0, bwd_packet_count |-> 0,
     fwd_packet_lengths |-> <<>>, bwd_packet_lengths |-> <<>>,
     fwd_iat |-> <<>>, bwd_iat |-> <<>>]

FlowStats(flow_key, first_timestamp, last_timestamp) ==
    [flow_key |-> flow_key, first_timestamp |-> first_timestamp,
     last_timestamp |-> last_timestamp,
     fwd_packet_count |-> 0, bwd_packet_count |-> 0,
     fwd_packet_lengths |-> <<>>, bwd_packet_lengths |-> <<>>,
     fwd_iat |-> <<>>, bwd_iat |-> <<>>]

\* Faulty variant: no clamp.
Max_noclamp(a, b) == a

Max(a, b) == IF a >= b THEN a ELSE b

\* Faulty variant: the recorded values are not added up.
Sum_none(s) == 0

RECURSIVE Sum(_)
Sum(s) == IF s = <<>> THEN 0 ELSE Head(s) + Sum(Tail(s))

\* Faulty variant: the difference as it is.
duration_raw(fs) == fs.last_timestamp - fs.first_timestamp

duration(fs) == Max(fs.last_timestamp - fs.first_timestamp, 0)

total_packets(fs) == fs.fwd_packet_count + fs.bwd_packet_count

\* ------------------------------------------------- the dictionary _flows
HasKey(d, k) == \E i \in 1..Len(d) : d[i].key = k

\* Faulty variant: the first entry's accumulator, whatever the key.
Lookup_first(d, k) == d[1].ref

Lookup(d, k) == d[CHOOSE i \in 1..Len(d) : d[i].key = k].ref

\* Faulty variant: a table of at most two entries; the oldest is evicted.
DictSet_cap(d, k, r) ==
    IF Len(d) >= 2 THEN Append(Tail(d), [key |-> k, ref |-> r])
    ELSE Append(d, [key |-> k, ref |-> r])

DictSet(d, k, r) ==
    IF HasKey(d, k)
    THEN [i \in 1..Len(d) |-> IF d[i].key = k THEN [key |-> k, ref |-> r] ELSE d[i]]
    ELSE Append(d, [key |-> k, ref |-> r])

\* Faulty variant: the entry is not deleted.
DictDel_keep(d, k) == d

DictDel(d, k) == SelectSeq(d, LAMBDA e : e.key # k)

\* del d[k] as a statement: the dictionary afterwards and whether KeyError
\* was raised (Python raises it when k is not a key of d).
del_item(d, k) ==
    IF HasKey(d, k)
    THEN [flows |-> DictDel(d, k), raised |-> FALSE]
    ELSE [flows |-> d, raised |-> TRUE]

\* Faulty variant: only the first collected key is removed.
DelAll_first(d, keys) == IF keys = <<>> THEN d ELSE DictDel(d, Head(keys))

RECURSIVE DelAll(_, _)
DelAll(d, keys) == IF keys = <<>> THEN d ELSE DelAll(DictDel(d, Head(keys)), Tail(keys))

Refs(d) == {d[i].ref : i \in 1..Len(d)}

\* ------------------------------------------------------ pure operations
\* Faulty variant: only the timestamp is updated.
update_flow_stats_nocount(fs, p, fwd) == [fs EXCEPT !.last_timestamp = p.timestamp]

\* Faulty variants of the update: the accumulator gets the timestamp last,
\* and an inter-arrival value is appended from the n-th packet of a
\* direction on.
update_variant(fs, p, fwd, last, n) ==
    LET fs1 == [fs EXCEPT !.last_timestamp = last] IN
    IF fwd
    THEN LET lens == Append(fs1.fwd_packet_lengths, p.length)
             iat  == p.timestamp - (fs1.first_timestamp + Sum(fs1.fwd_iat))
         IN [fs1 EXCEPT !.fwd_packet_count = @ + 1,
                        !.fwd_packet_lengths = lens,
                        !.fwd_iat = IF Len(lens) >= n THEN Append(@, Max(iat, 0)) ELSE @]
    ELSE LET lens == Append(fs1.bwd_packet_lengths, p.length)
             iat  == p.timestamp - (fs1.first_timestamp + Sum(fs1.bwd_iat))
         IN [fs1 EXCEPT !.bwd_packet_count = @ + 1,
                        !.bwd_packet_lengths = lens,
                        !.bwd_iat = IF Len(lens) >= n THEN Append(@, Max(iat, 0)) ELSE @]

\* Faulty variant: every packet is counted as forward.
update_flow_stats_fwdonly(fs, p, fwd) == update_variant(fs, p, TRUE, p.timestamp, 2)

\* Faulty variant: the first packet of a direction appends a value too.
update_flow_stats_iatfirst(fs, p, fwd) == update_variant(fs, p, fwd, p.timestamp, 1)

\* Faulty variant: last_timestamp only moves forward.
update_flow_stats_maxlast(fs, p, fwd) ==
    update_variant(fs, p, fwd, IF p.timestamp >= fs.last_timestamp
                               THEN p.timestamp ELSE fs.last_timestamp, 2)

update_flow_stats(fs, p, fwd) ==
    LET fs1 == [fs EXCEPT !.last_timestamp = p.timestamp] IN
    IF fwd
    THEN LET lens == Append(fs1.fwd_packet_lengths, p.length)
             iat  == IF fs1.fwd_iat # <<>>
                     THEN p.timestamp - (fs1.first_timestamp + Sum(fs1.fwd_iat))
                     ELSE p.timestamp - fs1.first_timestamp
         IN [fs1 EXCEPT !.fwd_packet_count = @ + 1,
                        !.fwd_packet_lengths = lens,
                        !.fwd_iat = IF Len(lens) > 1 THEN Append(@, Max(iat, 0)) ELSE @]
    ELSE LET lens == Append(fs1.bwd_packet_lengths, p.length)
             iat  == IF fs1.bwd_iat # <<>>
                     THEN p.timestamp - (fs1.first_timestamp + Sum(fs1.bwd_iat))
                     ELSE p.timestamp - fs1.first_timestamp
         IN [fs1 EXCEPT !.bwd_packet_count = @ + 1,
                        !.bwd_packet_lengths = lens,
                        !.bwd_iat = IF Len(lens) > 1 THEN Append(@, Max(iat, 0)) ELSE @]

\* Faulty variant: the age of the flow in place of its inactivity.
is_flow_complete_age(fs, current_time, timeout) ==
    current_time - fs.first_timestamp >= timeout

\* Faulty variant: strict comparison.
is_flow_complete_strict(fs, current_time, timeout) ==
    current_time - fs.last_timestamp > timeout

is_flow_complete(fs, current_time, timeout) ==
    LET time_since_last_packet == current_time - fs.last_timestamp
    IN time_since_last_packet >= timeout

\* Faulty variant: the number of values in place of their sum.
safe_mean_count(values) ==
    IF values # <<>> THEN <<Len(values), Len(values)>> ELSE <<0, 1>>

safe_mean(values) ==
    IF values # <<>> THEN <<Sum(values), Len(values)>> ELSE <<0, 1>>

\* statistics.mean and statistics.stdev raise StatisticsError on fewer than
\* one, respectively two, values.
StatisticsError_mean(values) == Len(values) < 1

StatisticsError_stdev(values) == Len(values) < 2

\* Sum of the squares of the values.
RECURSIVE SumSq(_)
SumSq(s) == IF s = <<>> THEN 0 ELSE Head(s) * Head(s) + SumSq(Tail(s))

\* Faulty variant: one value is enough.
safe_std_one(values) ==
    IF Len(values) > 0
    THEN <<Len(values) * SumSq(values) - Sum(values) * Sum(values),
           Len(values) * (Len(values) - 1)>>
    ELSE <<0, 1>>

\* _safe_std: the sample variance as the exact fraction <<numerator,
\* denominator>> = (n * sum(x^2) - sum(x)^2) / (n * (n - 1)), of which the
\* result is the square root; 0.0 is <<0, 1>>.
safe_std(values) ==
    IF Len(values) > 1
    THEN <<Len(values) * SumSq(values) - Sum(values) * Sum(values),
           Len(values) * (Len(values) - 1)>>
    ELSE <<0, 1>>

\* Whether the call raises: the library function is evaluated only on the
\* guarded branch.
safe_mean_raises(values) == values # <<>> /\ StatisticsError_mean(values)

safe_std_raises(values) == Len(values) > 1 /\ StatisticsError_stdev(values)

\* The vector of the accumulator with reference r; src records which
\* object it was computed from.
extract_features(r, fs) ==
    LET all_lengths == fs.fwd_packet_lengths \o fs.bwd_packet_lengths
        all_iats    == fs.fwd_iat \o fs.bwd_iat
    IN [flow_key |-> fs.flow_key,
        flow_duration |-> duration(fs),
        total_fwd_packets |-> fs.fwd_packet_count,
        total_bwd_packets |-> fs.bwd_packet_count,
        total_packets |-> total_packets(fs),
        fwd_packet_length_mean |-> safe_mean(fs.fwd_packet_lengths),
        bwd_packet_length_mean |-> safe_mean(fs.bwd_packet_lengths),
        packet_length_mean |-> safe_mean(all_lengths),
        fwd_iat_mean |-> safe_mean(fs.fwd_iat),
        bwd_iat_mean |-> safe_mean(fs.bwd_iat),
        iat_mean |-> safe_mean(all_iats),
        timestamp |-> fs.first_timestamp,
        protocol |-> fs.flow_key.protocol,
        src |-> r]

\* Faulty variant: every stale entry is collected twice.
StaleEntries_twice(d, heap, current_time, timeout) ==
    SelectSeq(d \o d, LAMBDA e : current_time - heap[e.ref].last_timestamp >= timeout)

\* Entries of d that the sweep collects at current_time, in iteration order.
StaleEntries(d, heap, current_time, timeout) ==
    SelectSeq(d, LAMBDA e : is_flow_complete(heap[e.ref], current_time, timeout))

\* _cleanup_stale_flows: the table after the removals, the returned list,
\* the keys removed (flows_to_remove) and the references they held.
cleanup_stale_flows(d, heap, current_time, timeout) ==
    LET stale == StaleEntries(d, heap, current_time, timeout)
        flows_to_remove == [i \in 1..Len(stale) |-> stale[i].key]
    IN [flows |-> DelAll(d, flows_to_remove),
        completed_features |->
            [i \in 1..Len(stale) |-> extract_features(stale[i].ref, heap[stale[i].ref])],
        flows_to_remove |-> flows_to_remove,
        removed |-> [i \in 1..Len(stale) |-> stale[i].ref]]

\* Reference counting: an object is kept while the table or the local
\* flow_stats of a call inside process_packet refers to it.
Freed == [freed |-> TRUE]

InProcessPacket == {"pp_update", "pp_check", "pp_sweep", "pp_reset"}

LiveRefs(d, p, fsl) ==
    Refs(d) \cup {fsl[u] : u \in {v \in DOMAIN p : p[v] \in InProcessPacket}}

Collect(heap, live) == [i \in 1..Len(heap) |-> IF i \in live THEN heap[i] ELSE Freed]

\* c[i] + 1 for every reference i listed in refs (a sequence)
RECURSIVE Bump(_, _)
Bump(c, refs) ==
    IF refs = <<>> THEN c
    ELSE Bump([c EXCEPT ![Head(refs)] = @ + 1], Tail(refs))

\* What has been folded into an accumulator, recorded from the packets
\* themselves: the creating packet's key, the packets carrying that key (k)
\* and the other key (r), their lengths and timestamps.  -1: none yet.
NewSeen(key, ts) ==
    [key0 |-> key, created |-> ts, nk |-> 0, nr |-> 0, nx |-> 0, sumlen |-> 0,
     last_ts |-> -1, last_k |-> -1, last_r |-> -1, gaps_k |-> <<>>, gaps_r |-> <<>>,
     ordered |-> TRUE, open |-> TRUE]

\* The packet p is folded into the accumulator described by s.  k: p carries
\* the creating key; r: p carries the creating key with the endpoints
\* swapped (and is not a k-packet); x: neither.  gaps_k and gaps_r are the
\* differences between consecutive timestamps of one direction; ordered:
\* no timestamp so far was smaller than its predecessor; open: every packet
\* so far came less than timeout after the accumulator was last touched
\* (for the creating packet: after its creation).
Fold(s, p, timeout) ==
    LET key  == create_flow_key(p)
        same == key = s.key0
        back == /\ ~same
                /\ key.src_ip = s.key0.dst_ip /\ key.dst_ip = s.key0.src_ip
                /\ key.src_port = s.key0.dst_port /\ key.dst_port = s.key0.src_port
                /\ key.protocol = s.key0.protocol
        touched == IF s.last_ts = -1 THEN s.created ELSE s.last_ts
    IN [s EXCEPT !.nk = IF same THEN @ + 1 ELSE @,
                 !.nr = IF back THEN @ + 1 ELSE @,
                 !.nx = IF same \/ back THEN @ ELSE @ + 1,
                 !.sumlen = @ + p.length,
                 !.last_ts = p.timestamp,
                 !.last_k = IF same THEN p.timestamp ELSE @,
                 !.last_r = IF back THEN p.timestamp ELSE @,
                 !.gaps_k = IF same /\ s.last_k # -1
                            THEN Append(@, p.timestamp - s.last_k) ELSE @,
                 !.gaps_r = IF back /\ s.last_r # -1
                            THEN Append(@, p.timestamp - s.last_r) ELSE @,
                 !.ordered = @ /\ p.timestamp >= touched,
                 !.open = @ /\ p.timestamp - touched < timeout]

Forgotten == [forgotten |-> TRUE]

Forget(sn, heap) == [i \in 1..Len(sn) |-> IF heap[i] = Freed THEN Forgotten ELSE sn[i]]

Snapshot(d, heap) == [i \in 1..Len(d) |-> [key |-> d[i].key, ref |-> d[i].ref,
                                            stats |-> heap[d[i].ref]]]

\* ------------------------------------------------------------------ Init
NoStats == [active_flows |-> 0, total_flows_created |-> 0, total_flows_completed |-> 0]

NoPacket == [timestamp |-> 0, src_ip |-> "a", dst_ip |-> "a", src_port |-> 1,
             dst_port |-> 1, protocol |-> "TCP", length |-> 1]

NoFn == [op |-> "none"]

\* No application owns the extractor.
NoApp == [kind |-> "none"]

\* ======================================================= NetworkSentinel
\* src/core/sniffer.py.  The sentinel is one record; `threads` holds the
\* position of every Thread object start() has created:
\*   "sniffing"  inside sniff(), waiting for a packet
\*   "counted"   inside _packet_handler, past the increment of
\*               _packets_captured, before the packet is handed on
\*   "callback"  inside packet_callback
\*   "exiting"   sniff() has returned or raised, the finally block is next
\*   "done"      the thread has terminated
\* `caller` is the position of the thread that calls start() and stop(),
\* `enqueued` counts the packets ever put on the queue.
NetworkSentinel(packet_callback, queue_size) ==
    [packet_callback |-> packet_callback,
     queue_size |-> queue_size,
     _sniff_thread |-> 0,
     _stop_event |-> FALSE,
     _is_running |-> FALSE,
     packet_queue |-> <<>>,
     _packets_captured |-> 0,
     _packets_dropped |-> 0,
     threads |-> <<>>,
     caller |-> "idle",
     enqueued |-> 0]

\* No NetworkSentinel has been constructed: no thread, no packet.
NoSentinel == NetworkSentinel("unset", 0)

NoRet == [op |-> "none", raised |-> FALSE, val |-> <<>>, stats |-> NoStats]

Init ==
    /\ flow_timeout \in FlowTimeouts
    /\ cleanup_interval \in CleanupIntervals
    /\ flows = <<>>
    /\ objs = <<>>
    /\ lock = 0
    /\ wall = 0
    /\ last_cleanup = 0
    /\ total_flows_created = 0
    /\ total_flows_completed = 0
    /\ pc = [t \in Threads |-> "idle"]
    /\ packet = [t \in Threads |-> NoPacket]
    /\ flow_stats = [t \in Threads |-> 0]
    /\ is_forward = [t \in Threads |-> TRUE]
    /\ features = [t \in Threads |-> <<>>]
    /\ ret = [t \in Threads |-> NoRet]
    /\ pre = [t \in Threads |-> <<>>]
    /\ removals = <<>>
    /\ handouts = <<>>
    /\ seen = <<>>
    /\ fn = NoFn
    /\ calls = 0
    /\ sentinel = NoSentinel
    /\ app = NoApp

config == <<flow_timeout, cleanup_interval>>
counters == <<last_cleanup, total_flows_created, total_flows_completed>>
shared == <<flows, objs, counters>>
locals == <<packet, flow_stats, is_forward, features>>
history == <<removals, handouts, seen>>
outside == <<sentinel, app>>

\* ------------------------------------------------------- the wall clock
Tick ==
    /\ wall < MaxWall
    /\ wall' = wall + 1
    /\ UNCHANGED <<config, fn, outside, shared, lock, pc, locals, ret, pre, history, calls>>

\* ---------------------------------------------------------- entry points
CallWithin(t, op, budget) ==
    /\ pc[t] = "idle"
    /\ calls < budget
    /\ calls' = calls + 1
    /\ pc' = [pc EXCEPT ![t] = op]
    /\ ret' = [ret EXCEPT ![t] = NoRet]
    /\ UNCHANGED <<config, fn, outside, shared, lock, wall, flow_stats, is_forward, features,
                   pre, history>>

Call(t, op) == CallWithin(t, op, MaxCalls)

call_process_packet(t) ==
    \E p \in PacketInfo :
        /\ Call(t, "pp_acquire")
        /\ packet' = [packet EXCEPT ![t] = p]

call_finalize_all_flows(t) ==
    Call(t, "fin_acquire") /\ packet' = [packet EXCEPT ![t] = NoPacket]

call_get_statistics(t) ==
    Call(t, "gs_acquire") /\ packet' = [packet EXCEPT ![t] = NoPacket]

call_get_active_flow_count(t) ==
    Call(t, "gc_acquire") /\ packet' = [packet EXCEPT ![t] = NoPacket]

\* ------------------------------------------------------- with self._lock
AfterAcquire(p) ==
    CASE p = "pp_acquire" -> "pp_lookup"
      [] p = "fin_acquire" -> "fin_extract"
      [] p = "gs_acquire" -> "gs_read"
      [] p = "gc_acquire" -> "gc_read"

\* Faulty variant: the lock never blocks.
LockFree_always(l) == TRUE

LockFree(l) == l = 0

Acquire(t) ==
    /\ pc[t] \in {"pp_acquire", "fin_acquire", "gs_acquire", "gc_acquire"}
    /\ LockFree(lock)
    /\ lock' = t
    /\ pc' = [pc EXCEPT ![t] = AfterAcquire(pc[t])]
    /\ pre' = [pre EXCEPT ![t] = Snapshot(flows, objs)]
    /\ UNCHANGED <<config, fn, outside, shared, wall, locals, ret, history, calls>>

\* Faulty variant: the lock is kept.
Release_keep(l, t) == l

\* Leaving the with block releases the lock as the call returns; the
\* locals of the call go out of scope.  Expects flows' to be set.
Release(l, t) == IF l = t THEN 0 ELSE l

Return(t, op, val, stats, raised) ==
    /\ ret' = [ret EXCEPT ![t] = [op |-> op, raised |-> raised, val |-> val,
                                  stats |-> stats]]
    /\ handouts' = Bump(handouts, [i \in 1..Len(val) |-> val[i].src])
    /\ lock' = Release(lock, t)
    /\ pc' = [pc EXCEPT ![t] = "idle"]
    /\ pre' = [pre EXCEPT ![t] = <<>>]
    /\ flow_stats' = [flow_stats EXCEPT ![t] = 0]
    /\ is_forward' = [is_forward EXCEPT ![t] = TRUE]
    /\ features' = [features EXCEPT ![t] = <<>>]
    /\ objs' = Collect(objs, LiveRefs(flows', pc', flow_stats'))
    /\ seen' = Forget(seen, objs')
    /\ UNCHANGED <<config, fn, outside, wall, packet, total_flows_created, calls>>

\* ------------------------------------------------------- process_packet
\* Faulty variant: the lock is dropped after the lookup.
pp_lookup_unlocked(t) ==
    /\ pc[t] = "pp_lookup"
    /\ LET flow_key == create_flow_key(packet[t])
           reverse_key == reverse(flow_key)
       IN IF HasKey(flows, flow_key)
          THEN /\ flow_stats' = [flow_stats EXCEPT ![t] = Lookup(flows, flow_key)]
               /\ is_forward' = [is_forward EXCEPT ![t] = TRUE]
               /\ UNCHANGED <<flows, objs, total_flows_created, history>>
          ELSE IF HasKey(flows, reverse_key)
          THEN /\ flow_stats' = [flow_stats EXCEPT ![t] = Lookup(flows, reverse_key)]
               /\ is_forward' = [is_forward EXCEPT ![t] = FALSE]
               /\ UNCHANGED <<flows, objs, total_flows_created, history>>
          ELSE /\ objs' = Append(objs, FlowStats(flow_key, packet[t].timestamp,
                                                 packet[t].timestamp))
               /\ flows' = DictSet(flows, flow_key, Len(objs) + 1)
               /\ total_flows_created' = total_flows_created + 1
               /\ flow_stats' = [flow_stats EXCEPT ![t] = Len(objs) + 1]
               /\ is_forward' = [is_forward EXCEPT ![t] = TRUE]
               /\ removals' = Append(removals, 0)
               /\ handouts' = Append(handouts, 0)
               /\ seen' = Append(seen, NewSeen(flow_key, packet[t].timestamp))
    /\ pc' = [pc EXCEPT ![t] = "pp_update"]
    /\ lock' = 0
    /\ UNCHANGED <<config, fn, outside, last_cleanup, total_flows_completed, wall,
                   packet, features, ret, pre, calls>>

\* lines 63-81: use the existing flow or create a new one
pp_lookup(t) ==
    /\ pc[t] = "pp_lookup"
    /\ LET flow_key == create_flow_key(packet[t])
           reverse_key == reverse(flow_key)
       IN IF HasKey(flows, flow_key)
          THEN /\ flow_stats' = [flow_stats EXCEPT ![t] = Lookup(flows, flow_key)]
               /\ is_forward' = [is_forward EXCEPT ![t] = TRUE]
               /\ UNCHANGED <<flows, objs, total_flows_created, history>>
          ELSE IF HasKey(flows, reverse_key)
          THEN /\ flow_stats' = [flow_stats EXCEPT ![t] = Lookup(flows, reverse_key)]
               /\ is_forward' = [is_forward EXCEPT ![t] = FALSE]
               /\ UNCHANGED <<flows, objs, total_flows_created, history>>
          ELSE /\ objs' = Append(objs, FlowStats(flow_key, packet[t].timestamp,
                                                 packet[t].timestamp))
               /\ flows' = DictSet(flows, flow_key, Len(objs) + 1)
               /\ total_flows_created' = total_flows_created + 1
               /\ flow_stats' = [flow_stats EXCEPT ![t] = Len(objs) + 1]
               /\ is_forward' = [is_forward EXCEPT ![t] = TRUE]
               /\ removals' = Append(removals, 0)
               /\ handouts' = Append(handouts, 0)
               /\ seen' = Append(seen, NewSeen(flow_key, packet[t].timestamp))
    /\ pc' = [pc EXCEPT ![t] = "pp_update"]
    /\ UNCHANGED <<config, fn, outside, last_cleanup, total_flows_completed, lock, wall,
                   packet, features, ret, pre, calls>>

\* line 84: fold the packet into the accumulator
pp_update(t) ==
    /\ pc[t] = "pp_update"
    /\ objs' = [objs EXCEPT ![flow_stats[t]] =
                    update_flow_stats(@, packet[t], is_forward[t])]
    /\ seen' = [seen EXCEPT ![flow_stats[t]] = Fold(@, packet[t], flow_timeout)]
    /\ pc' = [pc EXCEPT ![t] = "pp_check"]
    /\ UNCHANGED <<config, fn, outside, flows, counters, lock, wall, locals, ret, pre, removals,
                   handouts, calls>>

\* lines 87-91: completion check; del raises KeyError on an absent key
pp_check(t) ==
    /\ pc[t] = "pp_check"
    /\ LET fs == objs[flow_stats[t]] IN
       IF is_flow_complete(fs, packet[t].timestamp, flow_timeout)
       THEN IF HasKey(flows, fs.flow_key)
            THEN /\ flows' = DictDel(flows, fs.flow_key)
                 /\ removals' = Bump(removals, <<Lookup(flows, fs.flow_key)>>)
                 /\ total_flows_completed' = total_flows_completed + 1
                 /\ Return(t, "process_packet",
                           <<extract_features(flow_stats[t], fs)>>, NoStats, FALSE)
            ELSE /\ UNCHANGED <<flows, removals, total_flows_completed>>
                 /\ Return(t, "process_packet", <<>>, NoStats, TRUE)
       ELSE /\ pc' = [pc EXCEPT ![t] = "pp_sweep"]
            /\ UNCHANGED <<config, fn, outside, shared, lock, wall, locals, ret, pre, history,
                           calls>>
    /\ UNCHANGED last_cleanup

\* lines 94-95: periodic cleanup of stale flows, or line 101
\* Variant: non-strict comparison.
SweepDue_atleast(now, last, interval) == now - last >= interval

SweepDue(now, last, interval) == now - last > interval

pp_sweep(t) ==
    /\ pc[t] = "pp_sweep"
    /\ IF SweepDue(wall, last_cleanup, cleanup_interval)
       THEN LET c == cleanup_stale_flows(flows, objs, packet[t].timestamp, flow_timeout)
            IN /\ flows' = c.flows
               /\ total_flows_completed' = total_flows_completed + Len(c.flows_to_remove)
               /\ removals' = Bump(removals, c.removed)
               /\ features' = [features EXCEPT ![t] = c.completed_features]
               /\ pc' = [pc EXCEPT ![t] = "pp_reset"]
               /\ objs' = Collect(objs, LiveRefs(flows', pc', flow_stats))
               /\ seen' = Forget(seen, objs')
               /\ UNCHANGED <<config, fn, outside, total_flows_created, lock, wall, packet,
                              flow_stats, is_forward, ret, pre, handouts, calls>>
       ELSE /\ UNCHANGED <<flows, total_flows_completed, removals>>
            /\ Return(t, "process_packet", <<>>, NoStats, FALSE)
    /\ UNCHANGED last_cleanup

\* lines 96-101: reset the sweep time, return the first completed flow if any
pp_reset(t) ==
    /\ pc[t] = "pp_reset"
    /\ last_cleanup' = wall
    /\ UNCHANGED <<flows, total_flows_completed, removals>>
    /\ Return(t, "process_packet",
              IF features[t] # <<>> THEN <<features[t][1]>> ELSE <<>>, NoStats, FALSE)

\* --------------------------------------------------- finalize_all_flows
\* Faulty variant: only the first flow is extracted.
fin_extract_first(t) ==
    /\ pc[t] = "fin_extract"
    /\ features' = [features EXCEPT ![t] =
           [i \in 1..(IF flows = <<>> THEN 0 ELSE 1) |->
               extract_features(flows[i].ref, objs[flows[i].ref])]]
    /\ pc' = [pc EXCEPT ![t] = "fin_clear"]
    /\ UNCHANGED <<config, fn, outside, shared, lock, wall, packet, flow_stats, is_forward, ret,
                   pre, history, calls>>

\* line 263
fin_extract(t) ==
    /\ pc[t] = "fin_extract"
    /\ features' = [features EXCEPT ![t] =
           [i \in 1..Len(flows) |-> extract_features(flows[i].ref, objs[flows[i].ref])]]
    /\ pc' = [pc EXCEPT ![t] = "fin_clear"]
    /\ UNCHANGED <<config, fn, outside, shared, lock, wall, packet, flow_stats, is_forward, ret,
                   pre, history, calls>>

\* Faulty variant: a drain counts at least one completed flow.
fin_clear_atleast1(t) ==
    /\ pc[t] = "fin_clear"
    /\ total_flows_completed' = total_flows_completed + Max(Len(flows), 1)
    /\ removals' = Bump(removals, [i \in 1..Len(flows) |-> flows[i].ref])
    /\ flows' = <<>>
    /\ Return(t, "finalize_all_flows", features[t], NoStats, FALSE)
    /\ UNCHANGED last_cleanup

\* lines 264-267
fin_clear(t) ==
    /\ pc[t] = "fin_clear"
    /\ total_flows_completed' = total_flows_completed + Len(flows)
    /\ removals' = Bump(removals, [i \in 1..Len(flows) |-> flows[i].ref])
    /\ flows' = <<>>
    /\ Return(t, "finalize_all_flows", features[t], NoStats, FALSE)
    /\ UNCHANGED last_cleanup

\* ------------------------------- get_statistics, get_active_flow_count
gs_read(t) ==
    /\ pc[t] = "gs_read"
    /\ UNCHANGED <<flows, last_cleanup, total_flows_completed, removals>>
    /\ Return(t, "get_statistics", <<>>,
              [active_flows |-> Len(flows),
               total_flows_created |-> total_flows_created,
               total_flows_completed |-> total_flows_completed], FALSE)

gc_read(t) ==
    /\ pc[t] = "gc_read"
    /\ UNCHANGED <<flows, last_cleanup, total_flows_completed, removals>>
    /\ Return(t, "get_active_flow_count", <<>>,
              [NoStats EXCEPT !.active_flows = Len(flows)], FALSE)

\* ------------------------------------------------------------------ Next
Next ==
    \/ Tick
    \/ \E t \in Threads : call_process_packet(t)
    \/ \E t \in Threads : call_finalize_all_flows(t)
    \/ \E t \in Threads : call_get_statistics(t)
    \/ \E t \in Threads : call_get_active_flow_count(t)
    \/ \E t \in Threads : Acquire(t)
    \/ \E t \in Threads : pp_lookup(t)
    \/ \E t \in Threads : pp_update(t)
    \/ \E t \in Threads : pp_check(t)
    \/ \E t \in Threads : pp_sweep(t)
    \/ \E t \in Threads : pp_reset(t)
    \/ \E t \in Threads : fin_extract(t)
    \/ \E t \in Threads : fin_clear(t)
    \/ \E t \in Threads : gs_read(t)
    \/ \E t \in Threads : gc_read(t)

Spec == Init /\ [][Next]_vars

TypeOK ==
    /\ lock \in 0..NumThreads
    /\ wall \in 0..MaxWall
    /\ calls \in 0..MaxCalls
    /\ Len(removals) = Len(objs)
    /\ Len(handouts) = Len(objs)

\* ------------------------------------------- one conversation, one thread
\* The capture thread alone feeds the packets of one conversation (keys
\* a:1 -> b:1 and b:1 -> a:1, two packet lengths) and may drain the table;
\* the wall clock runs, so the periodic sweep takes place as well.
SeqThread == 1

SeqLengths == 1..(MaxLength + 1)

SeqPackets ==
    {p \in [timestamp : Timestamps, src_ip : IPs, dst_ip : IPs, src_port : Ports,
            dst_port : Ports, protocol : Protocol, length : SeqLengths] :
        p.src_ip # p.dst_ip}

seq_process_packet ==
    \E p \in SeqPackets :
        /\ CallWithin(SeqThread, "pp_acquire", MaxSeqCalls)
        /\ packet' = [packet EXCEPT ![SeqThread] = p]

seq_finalize_all_flows ==
    /\ CallWithin(SeqThread, "fin_acquire", MaxSeqCalls)
    /\ packet' = [packet EXCEPT ![SeqThread] = NoPacket]

SeqNext ==
    \/ Tick
    \/ seq_process_packet
    \/ seq_finalize_all_flows
    \/ Acquire(SeqThread)
    \/ pp_lookup(SeqThread)
    \/ pp_update(SeqThread)
    \/ pp_check(SeqThread)
    \/ pp_sweep(SeqThread)
    \/ pp_reset(SeqThread)
    \/ fin_extract(SeqThread)
    \/ fin_clear(SeqThread)

SeqSpec == Init /\ [][SeqNext]_vars

\* --------------------------------------------- the capture left to itself
\* process_packet is the only entry point called (no drain); the wall
\* clock keeps running, far enough to pass flow_timeout, and a call that
\* has started runs to its return.  Nothing forces a further packet to
\* arrive: the calls are not under a fairness condition.
LiveTick ==
    /\ wall < MaxWall + 1
    /\ wall' = wall + 1
    /\ UNCHANGED <<config, fn, outside, shared, lock, pc, locals, ret, pre, history, calls>>

live_process_packet ==
    \E p \in PacketInfo :
        /\ CallWithin(SeqThread, "pp_acquire", MaxLiveCalls)
        /\ packet' = [packet EXCEPT ![SeqThread] = p]

LiveRun ==
    \/ Acquire(SeqThread)
    \/ pp_lookup(SeqThread)
    \/ pp_update(SeqThread)
    \/ pp_check(SeqThread)
    \/ pp_sweep(SeqThread)
    \/ pp_reset(SeqThread)

LiveNext ==
    \/ LiveTick
    \/ live_process_packet
    \/ Acquire(SeqThread)
    \/ pp_lookup(SeqThread)
    \/ pp_update(SeqThread)
    \/ pp_check(SeqThread)
    \/ pp_sweep(SeqThread)
    \/ pp_reset(SeqThread)

LiveSpec == Init /\ [][LiveNext]_vars /\ WF_vars(LiveTick) /\ WF_vars(LiveRun)

\* ------------------------------------------------ del self._flows[key]
\* The removal statement on its own: any table of at most MaxTable entries
\* and any key, present or not.
Keys == {FlowKey(s, d, sp, dp, pr) : s \in IPs, d \in IPs, sp \in Ports, dp \in Ports,
                                     pr \in Protocol}

RECURSIVE Tables(_)
Tables(n) ==
    IF n = 0 THEN {<<>>}
    ELSE LET shorter == Tables(n - 1) IN
         shorter \cup {Append(d, [key |-> k, ref |-> Len(d) + 1]) :
                           d \in {e \in shorter : Len(e) = n - 1},
                           k \in Keys}

DelArgs ==
    {[op |-> "del", table |-> d, key |-> k, done |-> FALSE, out |-> d, raised |-> FALSE] :
        d \in {e \in Tables(MaxTable) : \A i, j \in 1..Len(e) : e[i].key = e[j].key => i = j},
        k \in Keys}

DelInit ==
    /\ flow_timeout \in FlowTimeouts
    /\ cleanup_interval \in CleanupIntervals
    /\ flows = <<>>
    /\ objs = <<>>
    /\ lock = 0
    /\ wall = 0
    /\ last_cleanup = 0
    /\ total_flows_created = 0
    /\ total_flows_completed = 0
    /\ pc = [t \in Threads |-> "idle"]
    /\ packet = [t \in Threads |-> NoPacket]
    /\ flow_stats = [t \in Threads |-> 0]
    /\ is_forward = [t \in Threads |-> TRUE]
    /\ features = [t \in Threads |-> <<>>]
    /\ ret = [t \in Threads |-> NoRet]
    /\ pre = [t \in Threads |-> <<>>]
    /\ removals = <<>>
    /\ handouts = <<>>
    /\ seen = <<>>
    /\ fn \in DelArgs
    /\ sentinel = NoSentinel
    /\ app = NoApp
    /\ calls = 0

del_apply ==
    /\ fn.op = "del"
    /\ ~fn.done
    /\ LET r == del_item(fn.table, fn.key) IN
       fn' = [fn EXCEPT !.done = TRUE, !.out = r.flows, !.raised = r.raised]
    /\ UNCHANGED <<config, outside, shared, lock, wall, pc, locals, ret, pre, history,
                   calls>>

DelNext == del_apply

DelSpec == DelInit /\ [][DelNext]_vars

\* ------------------------------------------------- threads under fairness
\* All four entry points, called by every thread.  A thread inside a call
\* keeps running (weak fairness on its steps) and a thread that waits for
\* the lock gets it if the lock is free again and again (strong fairness
\* on the acquisition).  Calls themselves are not forced.
fair_process_packet(t) ==
    \E p \in PacketInfo :
        /\ CallWithin(t, "pp_acquire", MaxFairCalls)
        /\ packet' = [packet EXCEPT ![t] = p]

fair_finalize_all_flows(t) ==
    /\ CallWithin(t, "fin_acquire", MaxFairCalls)
    /\ packet' = [packet EXCEPT ![t] = NoPacket]

fair_get_statistics(t) ==
    /\ CallWithin(t, "gs_acquire", MaxFairCalls)
    /\ packet' = [packet EXCEPT ![t] = NoPacket]

fair_get_active_flow_count(t) ==
    /\ CallWithin(t, "gc_acquire", MaxFairCalls)
    /\ packet' = [packet EXCEPT ![t] = NoPacket]

\* The steps of thread t inside the with block.
Run(t) ==
    \/ pp_lookup(t)
    \/ pp_update(t)
    \/ pp_check(t)
    \/ pp_sweep(t)
    \/ pp_reset(t)
    \/ fin_extract(t)
    \/ fin_clear(t)
    \/ gs_read(t)
    \/ gc_read(t)

FairNext ==
    \/ Tick
    \/ \E t \in Threads : fair_process_packet(t)
    \/ \E t \in Threads : fair_finalize_all_flows(t)
    \/ \E t \in Threads : fair_get_statistics(t)
    \/ \E t \in Threads : fair_get_active_flow_count(t)
    \/ \E t \in Threads : Acquire(t)
    \/ \E t \in Threads : pp_lookup(t)
    \/ \E t \in Threads : pp_update(t)
    \/ \E t \in Threads : pp_check(t)
    \/ \E t \in Threads : pp_sweep(t)
    \/ \E t \in Threads : pp_reset(t)
    \/ \E t \in Threads : fin_extract(t)
    \/ \E t \in Threads : fin_clear(t)
    \/ \E t \in Threads : gs_read(t)
    \/ \E t \in Threads : gc_read(t)

FairSpec ==
    /\ Init
    /\ [][FairNext]_vars
    /\ \A t \in Threads : WF_vars(Run(t)) /\ SF_vars(Acquire(t))

\* ------------------------------------------ reverse, _safe_mean, _safe_std
\* The pure operations on their own: reverse applied once and twice to any
\* key (two addresses, ports 1..MaxPort, the four protocols); _safe_mean
\* and _safe_std applied to any sequence of at most MaxValues values.
AllProtocols == {"TCP", "UDP", "ICMP", "OTHER"}

AllKeys ==
    {FlowKey(s, d, sp, dp, pr) : s \in IPs, d \in IPs, sp \in 1..MaxPort,
                                 dp \in 1..MaxPort, pr \in AllProtocols}

RECURSIVE ValueSeqs(_)
ValueSeqs(n) ==
    IF n = 0 THEN {<<>>}
    ELSE LET shorter == ValueSeqs(n - 1) IN
         shorter \cup {Append(q, v) : q \in {e \in shorter : Len(e) = n - 1},
                                      v \in 0..MaxValue}

FnArgs ==
    {[op |-> "reverse", arg |-> k, done |-> 0, out |-> <<>>, raised |-> FALSE] :
        k \in AllKeys}
    \cup {[op |-> o, arg |-> q, done |-> 0, out |-> <<>>, raised |-> FALSE] :
            o \in {"safe_mean", "safe_std"}, q \in ValueSeqs(MaxValues)}

Quiescent ==
    /\ flow_timeout \in FlowTimeouts
    /\ cleanup_interval \in CleanupIntervals
    /\ flows = <<>>
    /\ objs = <<>>
    /\ lock = 0
    /\ wall = 0
    /\ last_cleanup = 0
    /\ total_flows_created = 0
    /\ total_flows_completed = 0
    /\ pc = [t \in Threads |-> "idle"]
    /\ packet = [t \in Threads |-> NoPacket]
    /\ flow_stats = [t \in Threads |-> 0]
    /\ is_forward = [t \in Threads |-> TRUE]
    /\ features = [t \in Threads |-> <<>>]
    /\ ret = [t \in Threads |-> NoRet]
    /\ pre = [t \in Threads |-> <<>>]
    /\ removals = <<>>
    /\ handouts = <<>>
    /\ seen = <<>>
    /\ calls = 0

FnInit == Quiescent /\ fn \in FnArgs /\ sentinel = NoSentinel /\ app = NoApp

FnFrame == UNCHANGED <<config, outside, shared, lock, wall, pc, locals, ret, pre, history,
                   calls>>

\* reverse(k), then reverse of the result
reverse_apply ==
    /\ fn.op = "reverse"
    /\ fn.done < 2
    /\ fn' = [fn EXCEPT !.done = @ + 1,
                        !.out = Append(@, reverse(IF fn.done = 0 THEN fn.arg
                                                  ELSE fn.out[1]))]
    /\ FnFrame

safe_mean_apply ==
    /\ fn.op = "safe_mean"
    /\ fn.done = 0
    /\ fn' = [fn EXCEPT !.done = 1,
                        !.out = safe_mean(fn.arg),
                        !.raised = safe_mean_raises(fn.arg)]
    /\ FnFrame

safe_std_apply ==
    /\ fn.op = "safe_std"
    /\ fn.done = 0
    /\ fn' = [fn EXCEPT !.done = 1,
                        !.out = safe_std(fn.arg),
                        !.raised = safe_std_raises(fn.arg)]
    /\ FnFrame

FnNext ==
    \/ reverse_apply
    \/ safe_mean_apply
    \/ safe_std_apply

FnSpec == FnInit /\ [][FnNext]_vars

\* ============================================ NetworkSentinel, continued
QueueSizes == {0, 1, 2}

\* Thread.is_alive() of the i-th thread object (0 is None)
is_alive(s, i) == i # 0 /\ s.threads[i] # "done"

\* Faulty variant: the queue never reports that it is full.
Full_never(q, maxsize) == FALSE

\* Queue(maxsize): a maxsize of zero or less makes the queue unbounded
Full(q, maxsize) == maxsize > 0 /\ Len(q) >= maxsize

\* lines 75-93
start(s) ==
    IF s._is_running
    THEN s
    ELSE [s EXCEPT !._stop_event = FALSE,
                   !._is_running = TRUE,
                   !.threads = Append(@, "sniffing"),
                   !._sniff_thread = Len(s.threads) + 1]

\* lines 102-111, up to the call of join
stop(s) ==
    IF ~s._is_running
    THEN s
    ELSE [s EXCEPT !._stop_event = TRUE,
                   !._is_running = FALSE,
                   !.caller = IF is_alive(s, s._sniff_thread) THEN "joining"
                              ELSE "idle"]

\* lines 111-117: join returns when the thread has terminated or when the
\* timeout has expired, whichever comes first; either way stop() returns.
join(s) == [s EXCEPT !.caller = "idle"]

\* sniff() consults stop_filter after the handler of each packet (line 128)
stop_filter(s, i) ==
    [s EXCEPT !.threads[i] = IF s._stop_event THEN "exiting" ELSE "sniffing"]

\* lines 149-152: a packet without an IP layer is skipped, any other is
\* counted
count_packet(s, i, parsed) ==
    IF parsed
    THEN [s EXCEPT !._packets_captured = @ + 1, !.threads[i] = "counted"]
    ELSE stop_filter(s, i)

\* lines 158-163: put_nowait, and the drop when it raises
enqueue(s, i) ==
    stop_filter(IF Full(s.packet_queue, s.queue_size)
                THEN [s EXCEPT !._packets_dropped = @ + 1]
                ELSE [s EXCEPT !.packet_queue = Append(@, s._packets_captured),
                               !.enqueued = @ + 1],
                i)

\* lines 137-139
finally(s, i) == [s EXCEPT !._is_running = FALSE, !.threads[i] = "done"]

\* ------------------------------------ the sentinel in bounded queue mode
\* No callback is given: parsed packets go to packet_queue, a consumer
\* takes them out with get_packet.
CaptureFrame ==
    UNCHANGED <<config, fn, app, shared, lock, wall, pc, locals, ret, pre, history,
                calls>>

CaptureInit ==
    /\ Quiescent
    /\ fn = NoFn
    /\ app = NoApp
    /\ sentinel \in {NetworkSentinel("none", q) : q \in QueueSizes}

ns_start ==
    /\ sentinel.caller = "idle"
    /\ sentinel._is_running \/ Len(sentinel.threads) < MaxSniffThreads
    /\ sentinel' = start(sentinel)
    /\ CaptureFrame

ns_stop ==
    /\ sentinel.caller = "idle"
    /\ sentinel' = stop(sentinel)
    /\ CaptureFrame

ns_join ==
    /\ sentinel.caller = "joining"
    /\ sentinel' = join(sentinel)
    /\ CaptureFrame

\* lines 257-258
ns_get_packet ==
    /\ sentinel.packet_queue # <<>>
    /\ sentinel' = [sentinel EXCEPT !.packet_queue = Tail(@)]
    /\ CaptureFrame

SniffThreads == 1..MaxSniffThreads

sniff_receive(i) ==
    /\ i <= Len(sentinel.threads)
    /\ sentinel.threads[i] = "sniffing"
    /\ sentinel._packets_captured < MaxCaptured
    /\ \E parsed \in BOOLEAN : sentinel' = count_packet(sentinel, i, parsed)
    /\ CaptureFrame

sniff_enqueue(i) ==
    /\ i <= Len(sentinel.threads)
    /\ sentinel.threads[i] = "counted"
    /\ sentinel.packet_callback = "none"
    /\ sentinel' = enqueue(sentinel, i)
    /\ CaptureFrame

\* lines 130-136: sniff() raises
sniff_error(i) ==
    /\ i <= Len(sentinel.threads)
    /\ sentinel.threads[i] = "sniffing"
    /\ sentinel' = [sentinel EXCEPT !.threads[i] = "exiting"]
    /\ CaptureFrame

sniff_exit(i) ==
    /\ i <= Len(sentinel.threads)
    /\ sentinel.threads[i] = "exiting"
    /\ sentinel' = finally(sentinel, i)
    /\ CaptureFrame

CaptureNext ==
    \/ ns_start
    \/ ns_stop
    \/ ns_join
    \/ ns_get_packet
    \/ \E i \in SniffThreads : sniff_receive(i)
    \/ \E i \in SniffThreads : sniff_enqueue(i)
    \/ \E i \in SniffThreads : sniff_error(i)
    \/ \E i \in SniffThreads : sniff_exit(i)

CaptureSpec == CaptureInit /\ [][CaptureNext]_vars

\* ================================= the applications around the extractor
\* SentinelIntegration (src/sentinel_integrated.py) and CipherAegis in
\* training mode (src/main.py) own one NetworkSentinel in callback mode
\* and one FeatureExtractor.  The sniff thread runs process_packet inside
\* the callback; the main thread stops the sentinel and drains the
\* extractor.  `handled` lists the vectors passed to _handle_flow_features,
\* `training_features` is the list _run_training_mode trains on, `active`
\* records the flows that were in the table when stop was called.
Apps == {"integration", "training"}

App(kind) ==
    [kind |-> kind, pc |-> "capturing", handled |-> <<>>, training_features |-> <<>>,
     active |-> {}]

\* the thread the sentinel starts, and the thread that calls start and stop
SniffThread == 1

MainThread == NumThreads

\* Both applications construct the extractor with
\* cleanup_interval = flow_timeout / 2.
AppInit == Init /\ cleanup_interval * 2 = flow_timeout

\* packet.time is the capture time; it runs past flow_timeout
AppTimestamps == {0, MaxTime + 1}

AppPackets ==
    [timestamp : AppTimestamps, src_ip : IPs, dst_ip : IPs, src_port : Ports,
     dst_port : Ports, protocol : Protocol, length : Lengths]

AppFrame ==
    UNCHANGED <<config, fn, shared, lock, wall, pc, locals, ret, pre, history, calls>>

\* sentinel_integrated.py lines 214-230; main.py lines 163-168 and 197
app_start ==
    /\ app = NoApp
    /\ \E kind \in Apps :
        /\ app' = App(kind)
        /\ sentinel' = start(NetworkSentinel(kind, 10000))
    /\ AppFrame

\* sniffer.py lines 155-156, then the first line of the callback
\* (sentinel_integrated.py line 208, main.py line 303)
sniff_callback(i) ==
    /\ i <= Len(sentinel.threads)
    /\ sentinel.threads[i] = "counted"
    /\ sentinel.packet_callback # "none"
    /\ pc[i] = "idle"
    /\ sentinel' = [sentinel EXCEPT !.threads[i] = "callback"]
    /\ \E p \in AppPackets : packet' = [packet EXCEPT ![i] = p]
    /\ pc' = [pc EXCEPT ![i] = "pp_acquire"]
    /\ ret' = [ret EXCEPT ![i] = NoRet]
    /\ calls' = calls + 1
    /\ UNCHANGED <<config, fn, app, shared, lock, wall, flow_stats, is_forward,
                   features, pre, history>>

\* sentinel_integrated.py lines 211-212: a returned vector is handled.
\* main.py lines 305-309: in training mode a returned vector is dropped.
packet_callback(a, val) ==
    IF a.kind = "integration" /\ val # <<>>
    THEN [a EXCEPT !.handled = @ \o val]
    ELSE a

\* process_packet has returned: the rest of the callback, then stop_filter
sniff_callback_return(i) ==
    /\ i <= Len(sentinel.threads)
    /\ sentinel.threads[i] = "callback"
    /\ pc[i] = "idle"
    /\ app' = packet_callback(app, ret[i].val)
    /\ sentinel' = stop_filter(sentinel, i)
    /\ AppFrame

\* sentinel_integrated.py lines 236-237; main.py line 213
app_stop ==
    /\ app # NoApp
    /\ app.pc = "capturing"
    /\ sentinel' = stop(sentinel)
    /\ app' = [app EXCEPT !.pc = "stop_sentinel", !.active = Refs(flows)]
    /\ AppFrame

app_join ==
    /\ app # NoApp
    /\ app.pc = "stop_sentinel"
    /\ ns_join

\* sentinel_integrated.py line 240; main.py line 217
app_finalize ==
    /\ app # NoApp
    /\ app.pc = "stop_sentinel"
    /\ sentinel.caller = "idle"
    /\ pc[MainThread] = "idle"
    /\ app' = [app EXCEPT !.pc = "finalizing"]
    /\ pc' = [pc EXCEPT ![MainThread] = "fin_acquire"]
    /\ ret' = [ret EXCEPT ![MainThread] = NoRet]
    /\ packet' = [packet EXCEPT ![MainThread] = NoPacket]
    /\ calls' = calls + 1
    /\ UNCHANGED <<config, fn, sentinel, shared, lock, wall, flow_stats, is_forward,
                   features, pre, history>>

\* sentinel_integrated.py lines 243-244; main.py line 218
remaining(a, val) ==
    IF a.kind = "integration"
    THEN [a EXCEPT !.handled = @ \o val, !.pc = "stopped"]
    ELSE [a EXCEPT !.training_features = @ \o val, !.pc = "stopped"]

app_stopped ==
    /\ app # NoApp
    /\ app.pc = "finalizing"
    /\ pc[MainThread] = "idle"
    /\ app' = remaining(app, ret[MainThread].val)
    /\ UNCHANGED sentinel
    /\ AppFrame

AppNext ==
    \/ Tick
    \/ app_start
    \/ app_stop
    \/ app_join
    \/ app_finalize
    \/ app_stopped
    \/ sniff_receive(SniffThread)
    \/ sniff_callback(SniffThread)
    \/ sniff_callback_return(SniffThread)
    \/ sniff_error(SniffThread)
    \/ sniff_exit(SniffThread)
    \/ Acquire(SniffThread)
    \/ pp_lookup(SniffThread)
    \/ pp_update(SniffThread)
    \/ pp_check(SniffThread)
    \/ pp_sweep(SniffThread)
    \/ pp_reset(SniffThread)
    \/ Acquire(MainThread)
    \/ fin_extract(MainThread)
    \/ fin_clear(MainThread)

AppSpec == AppInit /\ [][AppNext]_vars

\* ================================================================ claims
\* Two keys name the same conversation: equal, or endpoints swapped with the
\* same protocol.
SameConversation(k1, k2) ==
    \/ k1 = k2
    \/ /\ k1.src_ip = k2.dst_ip /\ k1.dst_ip = k2.src_ip
       /\ k1.src_port = k2.dst_port /\ k1.dst_port = k2.src_port
       /\ k1.protocol = k2.protocol

SelfReverse(k) == k.src_ip = k.dst_ip /\ k.src_port = k.dst_port

\* The entries of the table, as it was when call t took the lock, that
\* belong to the conversation of t's packet.
PreOf(t) ==
    SelectSeq(pre[t], LAMBDA e : SameConversation(e.key, create_flow_key(packet[t])))

ReturnsFromProcessPacket(t) ==
    pc[t] \in {"pp_check", "pp_sweep", "pp_reset"} /\ pc'[t] = "idle"

\* C1 - Timeout finalization: with flow_timeout > 0, a process_packet call
\* that finds a flow of its conversation with last_timestamp = T and carries
\* a timestamp >= T + flow_timeout removes that flow from the table and
\* returns its feature vector.
C1_TimeoutFinalization ==
    [][\A t \in Threads :
        (/\ ReturnsFromProcessPacket(t)
         /\ flow_timeout > 0
         /\ PreOf(t) # <<>>
         /\ packet[t].timestamp >= PreOf(t)[1].stats.last_timestamp + flow_timeout)
        => /\ ret'[t].val # <<>>
           /\ ret'[t].val[1].src = PreOf(t)[1].ref
           /\ PreOf(t)[1].ref \notin Refs(flows')]_vars

\* C2 - Single accumulator per conversation: no two entries of the table
\* belong to the same conversation (k and reverse(k) are never both keys),
\* and a packet whose conversation has an entry resolves to that entry's
\* accumulator.
C2_NoTwoEntries ==
    \A i, j \in 1..Len(flows) :
        i # j => ~SameConversation(flows[i].key, flows[j].key)

C2_ResolvesToSame ==
    \A t \in Threads :
        (pc[t] = "pp_lookup" /\ pc'[t] = "pp_update" /\ PreOf(t) # <<>>)
        => /\ flow_stats'[t] = PreOf(t)[1].ref
           /\ flows' = flows

C2_SingleAccumulator == []C2_NoTwoEntries /\ [][C2_ResolvesToSame]_vars

\* C2 witness: one accumulator holds packets of both directions k, reverse(k).
C2_Witness ==
    \E i \in 1..Len(flows) :
        /\ ~SelfReverse(flows[i].key)
        /\ objs[flows[i].ref].fwd_packet_count >= 1
        /\ objs[flows[i].ref].bwd_packet_count >= 1
        /\ total_packets(objs[flows[i].ref]) >= 3

\* C3 - Exactly-once delivery: once the operation that removed a flow from
\* the table has returned, exactly one feature vector of that flow has been
\* handed to a caller.
C3_ExactlyOnceDelivery ==
    lock = 0 =>
        \A r \in 1..Len(objs) : removals[r] >= 1 => handouts[r] = 1

\* C4 - Late-packet finalize-then-discard: when the completion check of
\* process_packet(p) finalizes p's flow, the returned vector counts p (packet
\* counts, length and inter-arrival samples one more than before the call in
\* p's direction) and the table holds no accumulator of p's conversation.
C4_Counts(t, v) ==
    LET had == PreOf(t) # <<>>
        old == IF had THEN PreOf(t)[1].stats
               ELSE FlowStats(create_flow_key(packet[t]), packet[t].timestamp,
                              packet[t].timestamp)
        fwd == ~had \/ PreOf(t)[1].key = create_flow_key(packet[t])
        oldlens == old.fwd_packet_lengths \o old.bwd_packet_lengths
        oldiats == old.fwd_iat \o old.bwd_iat
        dirlen == IF fwd THEN Len(old.fwd_packet_lengths)
                  ELSE Len(old.bwd_packet_lengths)
    IN /\ v.total_packets = total_packets(old) + 1
       /\ v.total_fwd_packets = old.fwd_packet_count + (IF fwd THEN 1 ELSE 0)
       /\ v.total_bwd_packets = old.bwd_packet_count + (IF fwd THEN 0 ELSE 1)
       /\ v.packet_length_mean =
              <<Sum(oldlens) + packet[t].length, Len(oldlens) + 1>>
       /\ (dirlen >= 1 => v.iat_mean[2] = Len(oldiats) + 1)

C4_FinalizeThenDiscard ==
    [][\A t \in Threads :
        (pc[t] = "pp_check" /\ pc'[t] = "idle" /\ ~ret'[t].raised)
        => /\ Len(ret'[t].val) = 1
           /\ C4_Counts(t, ret'[t].val[1])
           /\ \A i \in 1..Len(flows') :
                  ~SameConversation(flows'[i].key, create_flow_key(packet[t]))]_vars

\* C4 witness: a completion check has just returned the vector of the
\* packet's own flow (nothing was swept: the sweep time is still the initial one).
C4_Witness ==
    \E t \in Threads :
        /\ ret[t].op = "process_packet"
        /\ Len(ret[t].val) = 1
        /\ ret[t].val[1].flow_key = create_flow_key(packet[t])
        /\ ret[t].val[1].total_packets = 1
        /\ last_cleanup = 0
        /\ total_flows_completed = 2

\* C5 - Accumulator lifecycle: an accumulator is created only by a packet
\* whose conversation has no entry in the table; it is removed at most once;
\* an accumulator a vector was extracted from is out of the table when the
\* extracting call returns; no packet is folded into a removed accumulator.
C5_AtMostOnce == \A r \in 1..Len(objs) : removals[r] <= 1

C5_NotDangling ==
    lock = 0 =>
        \A i \in 1..Len(flows) :
            removals[flows[i].ref] = 0 /\ handouts[flows[i].ref] = 0

C5_Created ==
    Len(objs') > Len(objs) =>
        \E t \in Threads :
            /\ pc[t] = "pp_lookup" /\ pc'[t] = "pp_update"
            /\ \A i \in 1..Len(flows) :
                   ~SameConversation(flows[i].key, create_flow_key(packet[t]))
            /\ Len(objs') = Len(objs) + 1
            /\ flows' = Append(flows, [key |-> create_flow_key(packet[t]),
                                       ref |-> Len(objs')])

C5_Extracted ==
    \A t \in Threads :
        (pc[t] \in {"pp_check", "pp_sweep", "pp_reset", "fin_clear"} /\ pc'[t] = "idle")
        => /\ \A i \in 1..Len(features[t]) : features[t][i].src \notin Refs(flows')
           /\ \A i \in 1..Len(ret'[t].val) : ret'[t].val[i].src \notin Refs(flows')

C5_Folded ==
    \A t \in Threads :
        (pc[t] = "pp_update" /\ pc'[t] = "pp_check")
        => /\ flow_stats[t] \in Refs(flows)
           /\ removals[flow_stats[t]] = 0
           /\ handouts[flow_stats[t]] = 0

C5_Lifecycle ==
    /\ []C5_AtMostOnce
    /\ []C5_NotDangling
    /\ [][C5_Created /\ C5_Extracted /\ C5_Folded]_vars

\* C5 witness: an accumulator was removed and handed out, and a later packet
\* of the same conversation has a new accumulator in the table.
C5_Witness ==
    /\ lock = 0
    /\ \E t \in Threads :
        /\ Len(ret[t].val) = 1
        /\ removals[ret[t].val[1].src] = 1
        /\ \E i \in 1..Len(flows) :
               /\ SameConversation(flows[i].key, ret[t].val[1].flow_key)
               /\ flows[i].ref > ret[t].val[1].src

\* C6 - Mutual exclusion: at most one thread is inside a section that reads
\* or writes the table or the counters, the lock is held by exactly that
\* thread, and while a thread is inside its section no other step changes
\* the table, the accumulators or the counters.
Critical == {"pp_lookup", "pp_update", "pp_check", "pp_sweep", "pp_reset",
             "fin_extract", "fin_clear", "gs_read", "gc_read"}

C6_OneInside ==
    /\ \A t1, t2 \in Threads :
           (pc[t1] \in Critical /\ pc[t2] \in Critical) => t1 = t2
    /\ \A t \in Threads : pc[t] \in Critical <=> lock = t

C6_Atomic ==
    \A t \in Threads :
        (pc[t] \in Critical /\ pc'[t] = pc[t])
        => UNCHANGED <<flows, objs, last_cleanup, total_flows_created,
                       total_flows_completed>>

C6_MutualExclusion == []C6_OneInside /\ [][C6_Atomic]_vars

\* C6 witness: one thread is inside process_packet's section while another
\* waits for the lock.
C6_Witness ==
    \E t1, t2 \in Threads :
        /\ pc[t1] = "pp_check"
        /\ pc[t2] \in {"pp_acquire", "fin_acquire", "gs_acquire", "gc_acquire"}

\* C7 - No finalization race: every packet is folded into exactly one
\* accumulator and that accumulator is in the table at that moment; two
\* threads that ingest k and reverse(k) when neither is present (nothing
\* having been finalized) leave exactly one accumulator holding both packets.
C7_CountedOnce ==
    \A t \in Threads :
        (pc[t] = "pp_update" /\ pc'[t] = "pp_check")
        => /\ flow_stats[t] \in Refs(flows)
           /\ total_packets(objs'[flow_stats[t]]) = total_packets(objs[flow_stats[t]]) + 1
           /\ \A r \in 1..Len(objs) : r # flow_stats[t] => objs'[r] = objs[r]
           /\ flows' = flows

C7_OneAccumulator ==
    \A t1, t2 \in Threads :
        (/\ t1 # t2
         /\ calls = 2
         /\ pc[t1] = "idle" /\ pc[t2] = "idle"
         /\ ret[t1].op = "process_packet" /\ ret[t2].op = "process_packet"
         /\ SameConversation(create_flow_key(packet[t1]), create_flow_key(packet[t2]))
         /\ create_flow_key(packet[t1]) # create_flow_key(packet[t2])
         /\ total_flows_completed = 0)
        => /\ Len(flows) = 1
           /\ objs[flows[1].ref].fwd_packet_count = 1
           /\ objs[flows[1].ref].bwd_packet_count = 1

C7_NoFinalizationRace == []C7_OneAccumulator /\ [][C7_CountedOnce]_vars

\* C7 witness: a thread has created the accumulator of k and is about to fold
\* its packet while another thread waits with a packet of reverse(k).
C7_Witness ==
    \E t1, t2 \in Threads :
        /\ pc[t1] = "pp_update" /\ pc[t2] = "pp_acquire"
        /\ SameConversation(create_flow_key(packet[t1]), create_flow_key(packet[t2]))
        /\ create_flow_key(packet[t1]) # create_flow_key(packet[t2])
        /\ total_packets(objs[flow_stats[t1]]) = 0

\* C8 - Drain completeness: finalize_all_flows returns one vector per
\* accumulator that was in the table when it took the lock, in table order,
\* whatever their age, and leaves the table empty.
C8_DrainCompleteness ==
    [][\A t \in Threads :
        (pc[t] = "fin_clear" /\ pc'[t] = "idle")
        => /\ Len(ret'[t].val) = Len(pre[t])
           /\ \A i \in 1..Len(pre[t]) :
                  /\ ret'[t].val[i].src = pre[t][i].ref
                  /\ ret'[t].val[i].total_packets = total_packets(pre[t][i].stats)
           /\ flows' = <<>>]_vars

\* C8 witness: a drain has returned two vectors and the table is empty.
C8_Witness ==
    \E t \in Threads :
        /\ ret[t].op = "finalize_all_flows"
        /\ Len(ret[t].val) = 2
        /\ flows = <<>>

\* C9 - Sweep semantics: the sweep at time now removes exactly the entries
\* with now - last_timestamp >= flow_timeout, returns one vector for each of
\* them, and leaves every other entry and accumulator unchanged.
C9_Stale(e, now) == now - objs[e.ref].last_timestamp >= flow_timeout

C9_SweepSemantics ==
    [][\A t \in Threads :
        (pc[t] = "pp_sweep" /\ pc'[t] = "pp_reset")
        => LET now == packet[t].timestamp
               gone == {i \in 1..Len(flows) : C9_Stale(flows[i], now)}
           IN /\ flows' = SelectSeq(flows, LAMBDA e : ~C9_Stale(e, now))
              /\ Len(features'[t]) = Cardinality(gone)
              /\ {features'[t][j].src : j \in 1..Len(features'[t])}
                     = {flows[i].ref : i \in gone}
              /\ \A i \in 1..Len(flows) :
                     i \notin gone => objs'[flows[i].ref] = objs[flows[i].ref]]_vars

\* C9 witness: a sweep has removed two flows (idle for exactly flow_timeout)
\* and kept one.
C9_Witness ==
    \E t \in Threads :
        /\ pc[t] = "pp_reset"
        /\ Len(features[t]) = 2
        /\ Len(flows) = 1

\* C10 - Sweep trigger.  SweptBy(t): the call ran _cleanup_stale_flows.
C10_Decides(t) == pc[t] = "pp_sweep" /\ pc'[t] # "pp_sweep"

C10_SweptBy(t) == pc'[t] = "pp_reset"

C10_Rest ==
    \A t \in Threads :
        /\ (C10_Decides(t) /\ ~C10_SweptBy(t))
               => (last_cleanup' = last_cleanup /\ flows' = flows)
        /\ (pc[t] = "pp_reset" /\ pc'[t] = "idle") => last_cleanup' = wall
        /\ (pc[t] = "pp_check" /\ pc'[t] = "idle")
               => (last_cleanup' = last_cleanup /\ Len(flows') = Len(flows) - 1)

\* C10 as stated: a call whose completion check did not finalize sweeps iff
\* at least cleanup_interval seconds have elapsed since the last sweep.
C10_SweepAtLeastInterval ==
    [][/\ \A t \in Threads :
            C10_Decides(t) =>
                (C10_SweptBy(t) <=> wall - last_cleanup >= cleanup_interval)
       /\ C10_Rest]_vars

\* C10 amended: such a call sweeps iff strictly more than cleanup_interval
\* seconds have elapsed since the last sweep; the sweep time is then reset to
\* the current time; a call whose completion check finalized the flow neither
\* sweeps nor changes the sweep time.
C10_SweepTrigger ==
    [][/\ \A t \in Threads :
            C10_Decides(t) =>
                (C10_SweptBy(t) <=> wall - last_cleanup > cleanup_interval)
       /\ C10_Rest]_vars

\* C10 witness: a sweep has run and reset the sweep time.
C10_Witness ==
    /\ last_cleanup > 0
    /\ \E t \in Threads : ret[t].op = "process_packet" /\ pc[t] = "idle"

\* The accumulators that exist: the objects not yet freed.
Live == {r \in 1..Len(objs) : objs[r] # Freed}

\* C11 - Direction accounting: every accumulator carries the key of the
\* packet that created it; its forward counter and forward length sequence
\* count the packets folded into it that carry this key, its backward
\* counter and backward length sequence count those that carry the key with
\* the endpoints swapped (and differ from it), in whatever order the two
\* directions arrived; no other packet is folded into it.
C11_DirectionAccounting ==
    \A r \in Live :
        /\ objs[r].flow_key = seen[r].key0
        /\ objs[r].fwd_packet_count = seen[r].nk
        /\ Len(objs[r].fwd_packet_lengths) = seen[r].nk
        /\ objs[r].bwd_packet_count = seen[r].nr
        /\ Len(objs[r].bwd_packet_lengths) = seen[r].nr
        /\ seen[r].nx = 0

\* C11 witness: an accumulator took a packet of the reverse key and, after
\* it, a second packet of its own key.
C11_Witness ==
    \E r \in Live :
        /\ seen[r].nk = 2 /\ seen[r].nr = 1
        /\ seen[r].ordered /\ seen[r].last_r < seen[r].last_k
        /\ objs[r].fwd_packet_count = 2 /\ objs[r].bwd_packet_count = 1

\* C12 - Stale-flow liveness: a flow in the table whose inactivity (wall
\* clock minus last_timestamp) exceeds flow_timeout is eventually removed
\* from the table, whether or not another packet arrives.
C12_Stale(r) ==
    /\ r \in Refs(flows)
    /\ wall - objs[r].last_timestamp > flow_timeout

C12_StaleFlowLiveness ==
    \A r \in 1..MaxLiveCalls : [](C12_Stale(r) => <>(r \notin Refs(flows)))

\* C13 - Inter-arrival formula: a packet with timestamp t that is not the
\* first of its direction appends max(t - (first_timestamp + sum of the
\* values recorded so far for that direction), 0) to that direction's
\* inter-arrival sequence; the first packet of a direction appends nothing;
\* the other direction's sequence is left alone.
RECURSIVE C13_Total(_)
C13_Total(s) == IF Len(s) = 0 THEN 0 ELSE s[1] + C13_Total(SubSeq(s, 2, Len(s)))

C13_Appends(t) ==
    LET old     == objs[flow_stats[t]]
        new     == objs'[flow_stats[t]]
        forward == create_flow_key(packet[t]) = old.flow_key
        earlier == IF forward THEN Len(old.fwd_packet_lengths)
                              ELSE Len(old.bwd_packet_lengths)
        prev    == IF forward THEN old.fwd_iat ELSE old.bwd_iat
        raw     == packet[t].timestamp - (old.first_timestamp + C13_Total(prev))
        after   == IF earlier > 0 THEN Append(prev, IF raw >= 0 THEN raw ELSE 0)
                                  ELSE prev
    IN IF forward
       THEN new.fwd_iat = after /\ new.bwd_iat = old.bwd_iat
       ELSE new.bwd_iat = after /\ new.fwd_iat = old.fwd_iat

C13_InterArrivalFormula ==
    [][\A t \in Threads :
        (pc[t] = "pp_update" /\ pc'[t] = "pp_check") => C13_Appends(t)]_vars

\* C13 witness: a third backward packet was recorded against a non-zero
\* sum of earlier backward values.
C13_Witness ==
    \E r \in Live :
        /\ Len(objs[r].bwd_iat) = 2
        /\ objs[r].bwd_iat[1] > 0 /\ objs[r].bwd_iat[2] > 0

\* C14 - Inter-arrival meaning: while the packets of a flow arrive with
\* non-decreasing timestamps, the inter-arrival values of each direction
\* are the differences between consecutive timestamps of that direction.
C14_InterArrivalMeaning ==
    \A r \in Live :
        seen[r].ordered => /\ objs[r].fwd_iat = seen[r].gaps_k
                           /\ objs[r].bwd_iat = seen[r].gaps_r

\* C15 - Non-negative inter-arrival: every recorded inter-arrival value of
\* every accumulator is >= 0, whatever the order of the timestamps.
C15_NonNegativeIAT ==
    \A r \in Live :
        /\ \A i \in 1..Len(objs[r].fwd_iat) : objs[r].fwd_iat[i] >= 0
        /\ \A i \in 1..Len(objs[r].bwd_iat) : objs[r].bwd_iat[i] >= 0

\* C15 witness: a forward packet came with a timestamp smaller than the
\* forward packet before it, and the value recorded for it is 0.
C15_Witness ==
    \E r \in Live :
        \E i \in 1..Len(seen[r].gaps_k) :
            /\ seen[r].gaps_k[i] < 0
            /\ Len(objs[r].fwd_iat) >= i
            /\ objs[r].fwd_iat[i] = 0

\* C16 - Sequence lengths: whenever the lock is free, every accumulator has,
\* for each direction, packet_count = len(packet_lengths) and
\* len(iat) = max(len(packet_lengths) - 1, 0).
C16_Lengths(count, lengths, iat) ==
    /\ count = Len(lengths)
    /\ Len(iat) = IF Len(lengths) - 1 >= 0 THEN Len(lengths) - 1 ELSE 0

C16_SequenceLengths ==
    lock = 0 =>
        \A r \in Live :
            /\ C16_Lengths(objs[r].fwd_packet_count, objs[r].fwd_packet_lengths,
                           objs[r].fwd_iat)
            /\ C16_Lengths(objs[r].bwd_packet_count, objs[r].bwd_packet_lengths,
                           objs[r].bwd_iat)

\* C16 witness: the lock is free and an accumulator holds two forward
\* packets (one inter-arrival value) and one backward packet (none).
C16_Witness ==
    /\ lock = 0
    /\ \E r \in Live :
           /\ Len(objs[r].fwd_packet_lengths) = 2 /\ Len(objs[r].fwd_iat) = 1
           /\ Len(objs[r].bwd_packet_lengths) = 1 /\ Len(objs[r].bwd_iat) = 0

\* C17 - lastSeen update: once a packet has been folded into an accumulator,
\* last_timestamp is the timestamp of the packet folded last, also when it
\* is smaller than the one before; first_timestamp stays the timestamp of
\* the creating packet.
C17_LastSeen ==
    \A r \in Live :
        /\ objs[r].first_timestamp = seen[r].created
        /\ seen[r].last_ts # -1 => objs[r].last_timestamp = seen[r].last_ts

\* C17 witness: the packet folded last carried a timestamp smaller than the
\* creating packet's, and last_timestamp went back to it.
C17_Witness ==
    \E r \in Live :
        /\ seen[r].nk + seen[r].nr >= 2
        /\ seen[r].last_ts # -1 /\ seen[r].last_ts < seen[r].created
        /\ objs[r].last_timestamp < objs[r].first_timestamp

\* C18 - Open flow end to end: while every packet of the conversation comes
\* less than flow_timeout after the one before it, each process_packet call
\* returns None; a finalize_all_flows that finds this flow returns exactly
\* one vector, whose total_fwd_packets is the number of packets with the
\* first packet's key, total_bwd_packets the number with its reverse,
\* total_packets their sum and packet_length_mean the sum of all lengths
\* over total_packets.
C18_ReturnsNone ==
    \A t \in Threads :
        (ReturnsFromProcessPacket(t) /\ seen[flow_stats[t]].open)
        => ret'[t].val = <<>> /\ ~ret'[t].raised

C18_DrainsOne ==
    \A t \in Threads :
        (/\ pc[t] = "fin_clear" /\ pc'[t] = "idle"
         /\ Len(pre[t]) = 1
         /\ seen[pre[t][1].ref].open)
        => LET s == seen[pre[t][1].ref]
               v == ret'[t].val
           IN /\ Len(v) = 1
              /\ v[1].total_fwd_packets = s.nk
              /\ v[1].total_bwd_packets = s.nr
              /\ v[1].total_packets = s.nk + s.nr
              /\ v[1].packet_length_mean = <<s.sumlen, s.nk + s.nr>>

C18_OpenFlowEndToEnd == [][C18_ReturnsNone /\ C18_DrainsOne]_vars

\* C18 witness: a drain has extracted the one open flow: two forward
\* packets, one backward, lengths 1, 2 and 1 (mean 4/3).
C18_Witness ==
    \E t \in Threads :
        /\ pc[t] = "fin_clear"
        /\ Len(pre[t]) = 1 /\ Len(features[t]) = 1
        /\ seen[pre[t][1].ref].open
        /\ seen[pre[t][1].ref].nk = 2 /\ seen[pre[t][1].ref].nr = 1
        /\ features[t][1].packet_length_mean = <<4, 3>>

\* C19 - Identity fields: every vector, when it is extracted, has the key
\* of the packet that created the flow, the flow's first_timestamp as
\* timestamp, the key's protocol, flow_duration = max(last_timestamp -
\* first_timestamp, 0) and total_packets = total_fwd_packets +
\* total_bwd_packets; the vectors a call returns are vectors it extracted.
C19_Extracts(t) ==
    IF pc[t] \in {"pp_sweep", "fin_extract"} THEN features'[t]
    ELSE IF pc[t] = "pp_check" /\ pc'[t] = "idle" THEN ret'[t].val
    ELSE <<>>

C19_Fields(v) ==
    LET fs  == objs[v.src]
        gap == fs.last_timestamp - fs.first_timestamp
    IN /\ v.flow_key = seen[v.src].key0
       /\ v.timestamp = fs.first_timestamp
       /\ v.timestamp = seen[v.src].created
       /\ v.protocol = seen[v.src].key0.protocol
       /\ v.flow_duration = IF gap >= 0 THEN gap ELSE 0
       /\ v.flow_duration >= 0
       /\ v.total_packets = v.total_fwd_packets + v.total_bwd_packets

C19_AtExtraction ==
    \A t \in Threads :
        /\ \A i \in 1..Len(C19_Extracts(t)) : C19_Fields(C19_Extracts(t)[i])
        /\ (pc[t] \in {"pp_reset", "fin_clear"} /\ pc'[t] = "idle")
           => \A i \in 1..Len(ret'[t].val) :
                  \E j \in 1..Len(features[t]) : ret'[t].val[i] = features[t][j]

C19_IdentityFields == [][C19_AtExtraction]_vars

\* C19 witness: a vector was extracted from a flow whose last_timestamp is
\* smaller than its first_timestamp; its duration is 0.
C19_Witness ==
    \E t \in Threads :
        /\ pc[t] = "fin_clear"
        /\ \E i \in 1..Len(features[t]) :
               /\ objs[features[t][i].src].last_timestamp
                      < objs[features[t][i].src].first_timestamp
               /\ features[t][i].flow_duration = 0
               /\ features[t][i].total_packets >= 2

C21_CompletionTarget(t) ==
    LET fs == objs[flow_stats[t]] IN
    (pc[t] = "pp_check" /\ packet[t].timestamp - fs.last_timestamp >= flow_timeout)
    => \E i \in 1..Len(flows) : flows[i].key = fs.flow_key /\ flows[i].ref = flow_stats[t]

C21_SweepTargets(t) ==
    (pc[t] = "pp_sweep" /\ wall - last_cleanup > cleanup_interval)
    => LET keys == cleanup_stale_flows(flows, objs, packet[t].timestamp,
                                       flow_timeout).flows_to_remove
       IN /\ \A i \in 1..Len(keys) : \E j \in 1..Len(flows) : flows[j].key = keys[i]
          /\ \A i, j \in 1..Len(keys) : keys[i] = keys[j] => i = j

C21_RemovalHitsPresentKey ==
    \A t \in Threads :
        /\ C21_CompletionTarget(t)
        /\ C21_SweepTargets(t)
        /\ ~ret[t].raised

\* C21 witness: a call is about to delete its flow on the completion path
\* while another thread waits for the lock with a drain.
C21_Witness ==
    \E t, u \in Threads :
        /\ pc[t] = "pp_check"
        /\ packet[t].timestamp - objs[flow_stats[t]].last_timestamp >= flow_timeout
        /\ \E i \in 1..Len(flows) : flows[i].ref = flow_stats[t]
        /\ pc[u] = "fin_acquire"

\* C22 - No operation blocks indefinitely: a thread that is not inside a
\* call does not hold the lock (every return path releases it), and under
\* fair scheduling every call that has started returns.
C22_NoLockLeak == \A t \in Threads : pc[t] = "idle" => lock # t

C22_NoIndefiniteBlocking ==
    /\ []C22_NoLockLeak
    /\ \A t \in Threads : (pc[t] # "idle") ~> (pc[t] = "idle")

\* C22 witness: a process_packet call has returned a vector on the early
\* return of the completion path, and the other thread now holds the lock.
C22_Witness ==
    \E t, u \in Threads :
        /\ t # u
        /\ pc[u] = "idle" /\ ret[u].op = "process_packet" /\ ret[u].val # <<>>
        /\ lock = t /\ pc[t] \in Critical

\* C23 - Drain on an empty table: finalize_all_flows that finds the table
\* empty returns an empty list, raises nothing, leaves the table empty and
\* the completed counter as it was.
C23_DrainOnEmpty ==
    [][\A t \in Threads :
        (pc[t] = "fin_clear" /\ pc'[t] = "idle" /\ flows = <<>>)
        => /\ ret'[t].val = <<>>
           /\ ~ret'[t].raised
           /\ flows' = <<>>
           /\ total_flows_completed' = total_flows_completed]_vars

\* C23 witness: a drain has returned flows, and the next call, again a
\* drain, finds the table empty.
C23_Witness ==
    \E t, u \in Threads :
        /\ pc[u] = "idle" /\ ret[u].op = "finalize_all_flows" /\ ret[u].val # <<>>
        /\ pc[t] = "fin_clear" /\ flows = <<>> /\ features[t] = <<>>

\* C24 - Reverse symmetry: reverse(reverse(k)) = k, reverse keeps the
\* protocol, and reverse(k) # k whenever the source endpoint (address, port)
\* differs from the destination endpoint.
C24_ReverseSymmetry ==
    (fn.op = "reverse" /\ fn.done = 2)
    => /\ fn.out[2] = fn.arg
       /\ fn.out[1].protocol = fn.arg.protocol
       /\ (fn.arg.src_ip # fn.arg.dst_ip \/ fn.arg.src_port # fn.arg.dst_port)
          => fn.out[1] # fn.arg

\* C24 witness: reverse was applied twice to a key whose addresses are the
\* same and whose ports differ.
C24_Witness ==
    /\ fn.op = "reverse" /\ fn.done = 2
    /\ fn.arg.src_ip = fn.arg.dst_ip /\ fn.arg.src_port # fn.arg.dst_port
    /\ fn.arg.protocol = "UDP"

\* C25 - Safe statistics: _safe_mean of the empty sequence is 0.0, _safe_std
\* of a sequence of fewer than two values is 0.0, and neither raises an
\* error on any sequence.
C25_SafeStatistics ==
    /\ (fn.op = "safe_mean" /\ fn.done = 1)
       => /\ ~fn.raised
          /\ fn.arg = <<>> => fn.out = <<0, 1>>
    /\ (fn.op = "safe_std" /\ fn.done = 1)
       => /\ ~fn.raised
          /\ Len(fn.arg) < 2 => fn.out = <<0, 1>>

\* C25 witness: _safe_std was applied to a single non-zero value.
C25_Witness ==
    /\ fn.op = "safe_std" /\ fn.done = 1
    /\ Len(fn.arg) = 1 /\ fn.arg[1] = MaxValue
    /\ fn.out = <<0, 1>>

\* C26 - Stored under its own key: every table entry (k -> acc) has
\* acc.flow_key = k, and k is the key of the packet that created acc; a
\* packet found under neither its key nor the reverse creates the
\* accumulator under its own key and is counted as forward.
C26_OwnKey ==
    \A i \in 1..Len(flows) :
        /\ objs[flows[i].ref].flow_key = flows[i].key
        /\ seen[flows[i].ref].key0 = flows[i].key

C26_Creates ==
    \A t \in Threads :
        /\ (/\ pc[t] = "pp_lookup" /\ pc'[t] = "pp_update"
            /\ \A i \in 1..Len(flows) :
                   ~SameConversation(flows[i].key, create_flow_key(packet[t])))
           => /\ flows' = Append(flows, [key |-> create_flow_key(packet[t]),
                                         ref |-> flow_stats'[t]])
              /\ flow_stats'[t] = Len(objs) + 1
              /\ objs'[flow_stats'[t]].flow_key = create_flow_key(packet[t])
        /\ (/\ pc[t] = "pp_update" /\ pc'[t] = "pp_check"
            /\ objs[flow_stats[t]].fwd_packet_count = 0
            /\ objs[flow_stats[t]].bwd_packet_count = 0)
           => /\ objs'[flow_stats[t]].fwd_packet_count = 1
              /\ objs'[flow_stats[t]].bwd_packet_count = 0

C26_StoredUnderOwnKey == []C26_OwnKey /\ [][C26_Creates]_vars

\* C26 witness: the conversation of a and b is stored under b -> a, the
\* direction that arrived first, and has taken a packet a -> b as backward.
C26_Witness ==
    \E i \in 1..Len(flows) :
        /\ flows[i].key.src_ip = "b" /\ flows[i].key.dst_ip = "a"
        /\ objs[flows[i].ref].flow_key = flows[i].key
        /\ objs[flows[i].ref].fwd_packet_count = 1
        /\ objs[flows[i].ref].bwd_packet_count = 1

C28_Conserved ==
    lock = 0 => total_flows_created - total_flows_completed = Len(flows)

C28_Step ==
    /\ total_flows_created' >= total_flows_created
    /\ total_flows_completed' >= total_flows_completed
    /\ \A t \in Threads :
           (pc[t] = "gs_read" /\ pc'[t] = "idle")
           => /\ ret'[t].stats.active_flows = Len(flows)
              /\ ret'[t].stats.active_flows =
                     ret'[t].stats.total_flows_created
                         - ret'[t].stats.total_flows_completed

C28_CounterConservation == []C28_Conserved /\ [][C28_Step]_vars

\* C28 witness: get_statistics has reported one active flow after two flows
\* were created and one of them completed.
C28_Witness ==
    \E t \in Threads :
        /\ lock = 0 /\ pc[t] = "idle" /\ ret[t].op = "get_statistics"
        /\ ret[t].stats.active_flows = 1
        /\ ret[t].stats.total_flows_created = 2
        /\ ret[t].stats.total_flows_completed = 1

\* C29 - No eviction of live flows: an entry leaves the table only by the
\* completion check of a packet of its conversation, by a sweep at a time
\* now with now - last_timestamp >= flow_timeout, or by finalize_all_flows;
\* as long as nothing has completed, every accumulator ever created is in
\* the table, one for each conversation ingested.
C29_Removed ==
    \A i \in 1..Len(flows) :
        (\A j \in 1..Len(flows') : flows'[j].ref # flows[i].ref)
        => \E t \in Threads :
               \/ /\ pc[t] = "pp_check" /\ pc'[t] = "idle"
                  /\ flow_stats[t] = flows[i].ref
                  /\ SameConversation(flows[i].key, create_flow_key(packet[t]))
               \/ /\ pc[t] = "pp_sweep" /\ pc'[t] = "pp_reset"
                  /\ packet[t].timestamp - objs[flows[i].ref].last_timestamp
                         >= flow_timeout
               \/ pc[t] = "fin_clear" /\ pc'[t] = "idle"

C29_Ingested ==
    \A t \in Threads :
        (ReturnsFromProcessPacket(t) /\ total_flows_completed' = 0)
        => \E j \in 1..Len(flows') :
               SameConversation(flows'[j].key, create_flow_key(packet[t]))

C29_AllKept ==
    (lock = 0 /\ total_flows_completed = 0)
    => /\ Len(flows) = Len(objs)
       /\ \A r \in 1..Len(objs) : \E i \in 1..Len(flows) : flows[i].ref = r

C29_NoEviction == []C29_AllKept /\ [][C29_Removed /\ C29_Ingested]_vars

\* C29 witness: packets of three conversations were ingested, nothing has
\* completed, and the table holds three accumulators.
C29_Witness ==
    /\ lock = 0 /\ total_flows_completed = 0
    /\ Len(flows) = 3
    /\ \A i, j \in 1..Len(flows) :
           i # j => ~SameConversation(flows[i].key, flows[j].key)

\* C30 - Frame of ingest: a process_packet(p) call that performs no sweep
\* leaves every entry of another conversation in the table with its
\* accumulator as it was when the call took the lock, and adds no entry of
\* another conversation; while such a call runs without finalizing its own
\* flow, the completed counter and the last-sweep time keep their values.
C30_Others(t) ==
    LET k == create_flow_key(packet[t]) IN
    (pc[t] \in {"pp_check", "pp_sweep"} /\ pc'[t] = "idle")
    => /\ \A i \in 1..Len(pre[t]) :
              ~SameConversation(pre[t][i].key, k)
              => /\ \E j \in 1..Len(flows') :
                        /\ flows'[j].key = pre[t][i].key
                        /\ flows'[j].ref = pre[t][i].ref
                 /\ objs'[pre[t][i].ref] = pre[t][i].stats
       /\ \A j \in 1..Len(flows') :
              ~SameConversation(flows'[j].key, k)
              => \E i \in 1..Len(pre[t]) :
                     pre[t][i].key = flows'[j].key /\ pre[t][i].ref = flows'[j].ref

C30_Quiet(t) ==
    /\ lock = t
    /\ pc[t] \in {"pp_lookup", "pp_update", "pp_check", "pp_sweep"}
    /\ ~(pc[t] = "pp_check" /\ pc'[t] = "idle" /\ ret'[t].val # <<>>)
    /\ ~(pc[t] = "pp_sweep" /\ pc'[t] = "pp_reset")

C30_FrameOfIngest ==
    [][\A t \in Threads :
        /\ C30_Others(t)
        /\ C30_Quiet(t) => /\ total_flows_completed' = total_flows_completed
                           /\ last_cleanup' = last_cleanup]_vars

\* C30 witness: a call that folded its packet is about to return without a
\* sweep while the table holds a flow of another conversation.
C30_Witness ==
    \E t \in Threads :
        /\ pc[t] = "pp_sweep"
        /\ ~(wall - last_cleanup > cleanup_interval)
        /\ \E i \in 1..Len(pre[t]) :
               /\ ~SameConversation(pre[t][i].key, create_flow_key(packet[t]))
               /\ pre[t][i].stats.fwd_packet_count >= 1

\* ---------------------------------------------------------------- C31
C31_Stored == {flows[i].ref : i \in 1..Len(flows)}

\* C31: after SentinelIntegration.stop() has returned the extractor's table
\* is empty, and every flow that was active when stop() was called has been
\* passed to _handle_flow_features.
C31_ShutdownCompleteness ==
    (app.kind = "integration" /\ app.pc = "stopped")
    => /\ C31_Stored = {}
       /\ \A r \in app.active :
            \E j \in 1..Len(app.handled) : app.handled[j].src = r

\* ---------------------------------------------------------------- C32
C32_Returned == {r \in 1..Len(handouts) : handouts[r] > 0}

\* C32: in training mode a flow whose features process_packet has returned
\* stays stored in the extractor while the capture runs, and once the
\* training run has drained the extractor the training set holds a vector
\* of every such flow.
C32_TrainingCollection ==
    app.kind = "training"
    => /\ app.pc = "capturing"
          => \A r \in C32_Returned : \E i \in 1..Len(flows) : flows[i].ref = r
       /\ app.pc = "stopped"
          => \A r \in C32_Returned :
                \E j \in 1..Len(app.training_features) :
                    app.training_features[j].src = r

\* ---------------------------------------------------------------- C33
\* Sniff threads that have counted a packet and not yet handed it on.
C33_InFlight ==
    Cardinality({i \in 1..Len(sentinel.threads) : sentinel.threads[i] = "counted"})

\* C33 as stated: in queue mode the queue never holds more than queue_size
\* packets, and in every state packets_captured equals the packets ever
\* enqueued plus packets_dropped.
C33_BoundedQueueMode ==
    sentinel.packet_callback = "none"
    => /\ Len(sentinel.packet_queue) <= sentinel.queue_size
       /\ sentinel._packets_captured
              = sentinel.enqueued + sentinel._packets_dropped

C33_Accounting ==
    sentinel.packet_callback = "none"
    => /\ sentinel.queue_size > 0
          => Len(sentinel.packet_queue) <= sentinel.queue_size
       /\ sentinel._packets_captured
              = sentinel.enqueued + sentinel._packets_dropped + C33_InFlight

\* The step in which thread i hands on a counted packet while the queue
\* holds queue_size packets: the packet is dropped, packets_dropped grows
\* by one, and the thread goes on sniffing unless stop() has been called.
C33_Overflow ==
    \A i \in 1..Len(sentinel.threads) :
        (/\ sentinel.threads[i] = "counted"
         /\ sentinel'.threads[i] # "counted"
         /\ sentinel.queue_size > 0
         /\ Len(sentinel.packet_queue) = sentinel.queue_size)
        => /\ sentinel'._packets_dropped = sentinel._packets_dropped + 1
           /\ sentinel'.packet_queue = sentinel.packet_queue
           /\ sentinel'.enqueued = sentinel.enqueued
           /\ sentinel'._is_running = sentinel._is_running
           /\ sentinel'.threads[i] = "sniffing" \/ sentinel._stop_event

\* C33, amended: with a positive queue_size the queue never holds more than
\* queue_size packets (a queue_size of zero or less leaves it unbounded);
\* packets_captured equals the packets enqueued plus packets_dropped plus
\* the packets a handler has counted and not yet handed on; a packet handed
\* on while the queue is full is dropped, adds one to packets_dropped and
\* does not stop the capture.
C33_BoundedQueue ==
    C33_Accounting /\ [][C33_Accounting' /\ C33_Overflow]_vars

C33_Witness ==
    /\ sentinel.packet_callback = "none"
    /\ sentinel.queue_size = 1
    /\ Len(sentinel.packet_queue) = 1
    /\ sentinel._packets_dropped = 1
    /\ sentinel._is_running
    /\ C33_InFlight = 1

\* ---------------------------------------------------------------- C34
C34_Alive ==
    {i \in 1..Len(sentinel.threads) : sentinel.threads[i] # "done"}

C34_Capturing ==
    {i \in 1..Len(sentinel.threads) :
        sentinel.threads[i] \in {"sniffing", "counted", "callback"}}

\* is_running is True whenever a started sniff thread is still capturing
\* and no stop() is in progress.
C34_RunningWhileCapturing ==
    (sentinel # NoSentinel /\ sentinel.caller = "idle" /\ C34_Capturing # {})
    => sentinel._is_running

\* C34: under any sequence of start() and stop() calls and any timing of
\* sniff-thread termination, at most one sniff thread is alive at a time.
C34_OneSniffThread ==
    sentinel # NoSentinel => Cardinality(C34_Alive) <= 1
====
